---- MODULE Spec2Model ----
(***************************************************************************)
(* Tic-Tac-Toe decision engine (src/src/ai.ts) and the result check of the *)
(* game controller (src/src/game.ts).                                      *)
(*                                                                         *)
(* A board is a function 0..8 -> {"", "X", "O"}; "" is the empty cell, as  *)
(* in the source.  Where the source yields a mark or null, null is the     *)
(* string "null"; where it yields a cell index, null and undefined are two *)
(* integers outside 0..8; -Infinity and +Infinity are two integers outside *)
(* the range of every score.                                               *)
(*                                                                         *)
(* The game controller (class Game) works on the shared GameState object.  *)
(* Its fields board, currentPlayer, playerMark and aiMark are the          *)
(* variables board, currentPlayer, human and ai; the other fields are the  *)
(* record state.  overlay is the 'active' class of the game-over overlay,  *)
(* timers the set of callbacks setTimeout holds, and roundsEnded a history *)
(* variable: the rounds endGame has ended since the scores were last       *)
(* reset.  The mute flag, the sounds and the DOM rendering are left out.   *)
(***************************************************************************)
EXTENDS Integers, Sequences, FiniteSets, TLC

VARIABLES
    board,          \* the 9-cell board the engine is called on
    ai,             \* the AI's mark
    human,          \* the human's mark
    currentPlayer,  \* whose turn it is in a simulated game
    call,           \* the last engine call: its name, arguments and result
    state,          \* the remaining fields of the shared GameState
    overlay,        \* the game-over overlay is shown
    timers,         \* the pending setTimeout callbacks
    roundsEnded     \* history: rounds ended since the last reset of the scores

gameVars == <<state, overlay, timers, roundsEnded>>

vars == <<board, ai, human, currentPlayer, call, state, overlay, timers, roundsEnded>>

(***************************************************************************)
(* Data                                                                    *)
(***************************************************************************)
Null == "null"

Players == {"X", "O"}

BoardCells == {"", "X", "O"}

Indices == 0..8

\* null and undefined where a cell index is expected
NullIndex == -1

UndefinedIndex == -2

\* the null GameResult
NoResult == [type |-> "none"]

NegInfinity == -100

PosInfinity == 100

WIN_PATTERNS ==
    << <<0, 1, 2>>, <<3, 4, 5>>, <<6, 7, 8>>,
       <<0, 3, 6>>, <<1, 4, 7>>, <<2, 5, 8>>,
       <<0, 4, 8>>, <<2, 4, 6>> >>

EmptyBoard == [i \in Indices |-> ""]

Opponent(mark) == IF mark = "X" THEN "O" ELSE "X"

MathMax(a, b) == IF a >= b THEN a ELSE b

MathMin(a, b) == IF a <= b THEN a ELSE b

\* board.includes('')
includesEmpty(b) == \E i \in Indices : b[i] = ""

(***************************************************************************)
(* Board analysis                                                          *)
(***************************************************************************)
\* The test of one pattern in getWinner and checkResult:
\* board[a] && board[a] === board[b] && board[a] === board[c]
lineCompleteNoEmptyTest(b, pattern) ==
    /\ b[pattern[1]] = b[pattern[2]]
    /\ b[pattern[1]] = b[pattern[3]]

lineComplete(b, pattern) ==
    /\ b[pattern[1]] # ""
    /\ b[pattern[1]] = b[pattern[2]]
    /\ b[pattern[1]] = b[pattern[3]]

RECURSIVE getWinnerFrom(_, _)
getWinnerFrom(b, k) ==
    IF k > Len(WIN_PATTERNS) THEN Null
    ELSE IF lineComplete(b, WIN_PATTERNS[k]) THEN b[WIN_PATTERNS[k][1]]
    ELSE getWinnerFrom(b, k + 1)

getWinner(b) == getWinnerFrom(b, 1)

RECURSIVE getEmptyCellsFrom(_, _, _)
\* the scan starting at cell 1
getEmptyCellsFromOne(b, idx, acc) ==
    IF idx > 8 THEN acc
    ELSE getEmptyCellsFrom(b, idx + 1, IF b[idx] = "" /\ idx > 0 THEN Append(acc, idx) ELSE acc)

getEmptyCellsFrom(b, idx, acc) ==
    IF idx > 8 THEN acc
    ELSE getEmptyCellsFrom(b, idx + 1, IF b[idx] = "" THEN Append(acc, idx) ELSE acc)

getEmptyCells(b) == getEmptyCellsFrom(b, 0, <<>>)

\* values.indexOf(''), on the 1-based tuple of the three values (0 is JavaScript's -1)
indexOfEmpty(values) ==
    IF values[1] = "" THEN 1 ELSE IF values[2] = "" THEN 2 ELSE IF values[3] = "" THEN 3 ELSE 0

findWinningMoveNoEmptyCount(b, pattern, mark) ==
    LET values     == [k \in 1..3 |-> b[pattern[k]]]
        markCount  == Cardinality({k \in 1..3 : values[k] = mark})
        at         == indexOfEmpty(values)
    IN  IF markCount = 2
        THEN IF at = 0 THEN UndefinedIndex ELSE pattern[at]
        ELSE NullIndex

findWinningMove(b, pattern, mark) ==
    LET values     == [k \in 1..3 |-> b[pattern[k]]]
        markCount  == Cardinality({k \in 1..3 : values[k] = mark})
        emptyCount == Cardinality({k \in 1..3 : values[k] = ""})
    IN  IF markCount = 2 /\ emptyCount = 1
        THEN pattern[indexOfEmpty(values)]
        ELSE NullIndex

RECURSIVE checkResultFrom(_, _)
checkResultFrom(b, k) ==
    IF k > Len(WIN_PATTERNS)
    THEN IF ~includesEmpty(b) THEN [type |-> "draw"] ELSE NoResult
    ELSE IF lineComplete(b, WIN_PATTERNS[k])
         THEN [type |-> "win", winner |-> b[WIN_PATTERNS[k][1]], pattern |-> WIN_PATTERNS[k]]
         ELSE checkResultFrom(b, k + 1)

checkResultDrawFirst(b) ==
    IF ~includesEmpty(b) THEN [type |-> "draw"] ELSE checkResultFrom(b, 1)

checkResult(b) == checkResultFrom(b, 1)

(***************************************************************************)
(* Search: minimax with alpha-beta pruning.                                *)
(* The source mutates the board in place, so a call yields the score AND   *)
(* the board as the call leaves it.  Two more fields record facts about    *)
(* the execution: pruned (a break skipped at least one empty cell) and     *)
(* nest (the number of nested calls below this one).                       *)
(***************************************************************************)
Ret(score, b, pruned, nest) ==
    [score |-> score, board |-> b, pruned |-> pruned, nest |-> nest]

RECURSIVE minimax(_, _, _, _, _, _, _)
RECURSIVE maximize(_, _, _, _, _, _, _, _, _, _)
RECURSIVE minimize(_, _, _, _, _, _, _, _, _, _)

\* maximize with the break taken before the undo
maximizeBreakBeforeUndo(b, depth, i, best, alpha, beta, aiM, humanM, pruned, nest) ==
    IF i >= 9 THEN Ret(best, b, pruned, nest)
    ELSE IF b[i] = ""
    THEN LET r        == minimax([b EXCEPT ![i] = aiM], depth + 1, FALSE, alpha, beta, aiM, humanM)
             undone   == [r.board EXCEPT ![i] = ""]
             newBest  == MathMax(best, r.score)
             newAlpha == MathMax(alpha, r.score)
             newNest  == MathMax(nest, r.nest + 1)
         IN  IF beta <= newAlpha
             THEN Ret(newBest, r.board, pruned \/ r.pruned \/ (\E j \in (i + 1)..8 : undone[j] = ""), newNest)
             ELSE maximize(undone, depth, i + 1, newBest, newAlpha, beta, aiM, humanM, pruned \/ r.pruned, newNest)
    ELSE maximize(b, depth, i + 1, best, alpha, beta, aiM, humanM, pruned, nest)

\* The loop of the maximizing branch, from candidate cell i on.
maximize(b, depth, i, best, alpha, beta, aiM, humanM, pruned, nest) ==
    IF i >= 9 THEN Ret(best, b, pruned, nest)
    ELSE IF b[i] = ""
    THEN LET r        == minimax([b EXCEPT ![i] = aiM], depth + 1, FALSE, alpha, beta, aiM, humanM)
             undone   == [r.board EXCEPT ![i] = ""]
             newBest  == MathMax(best, r.score)
             newAlpha == MathMax(alpha, r.score)
             newNest  == MathMax(nest, r.nest + 1)
         IN  IF beta <= newAlpha
             THEN Ret(newBest, undone, pruned \/ r.pruned \/ (\E j \in (i + 1)..8 : undone[j] = ""), newNest)
             ELSE maximize(undone, depth, i + 1, newBest, newAlpha, beta, aiM, humanM, pruned \/ r.pruned, newNest)
    ELSE maximize(b, depth, i + 1, best, alpha, beta, aiM, humanM, pruned, nest)

\* minimize with the comparison of the break inverted
minimizeInvertedCut(b, depth, i, best, alpha, beta, aiM, humanM, pruned, nest) ==
    IF i >= 9 THEN Ret(best, b, pruned, nest)
    ELSE IF b[i] = ""
    THEN LET r       == minimax([b EXCEPT ![i] = humanM], depth + 1, TRUE, alpha, beta, aiM, humanM)
             undone  == [r.board EXCEPT ![i] = ""]
             newBest == MathMin(best, r.score)
             newBeta == MathMin(beta, r.score)
             newNest == MathMax(nest, r.nest + 1)
         IN  IF newBeta >= alpha
             THEN Ret(newBest, undone, pruned \/ r.pruned \/ (\E j \in (i + 1)..8 : undone[j] = ""), newNest)
             ELSE minimize(undone, depth, i + 1, newBest, alpha, newBeta, aiM, humanM, pruned \/ r.pruned, newNest)
    ELSE minimize(b, depth, i + 1, best, alpha, beta, aiM, humanM, pruned, nest)

\* The loop of the minimizing branch, from candidate cell i on.
minimize(b, depth, i, best, alpha, beta, aiM, humanM, pruned, nest) ==
    IF i >= 9 THEN Ret(best, b, pruned, nest)
    ELSE IF b[i] = ""
    THEN LET r       == minimax([b EXCEPT ![i] = humanM], depth + 1, TRUE, alpha, beta, aiM, humanM)
             undone  == [r.board EXCEPT ![i] = ""]
             newBest == MathMin(best, r.score)
             newBeta == MathMin(beta, r.score)
             newNest == MathMax(nest, r.nest + 1)
         IN  IF newBeta <= alpha
             THEN Ret(newBest, undone, pruned \/ r.pruned \/ (\E j \in (i + 1)..8 : undone[j] = ""), newNest)
             ELSE minimize(undone, depth, i + 1, newBest, alpha, newBeta, aiM, humanM, pruned \/ r.pruned, newNest)
    ELSE minimize(b, depth, i + 1, best, alpha, beta, aiM, humanM, pruned, nest)

\* minimax with the full-board test ahead of the winner tests
minimaxDrawFirst(b, depth, isMaximizing, alpha, beta, aiM, humanM) ==
    LET winner == getWinner(b)
    IN  IF ~includesEmpty(b) THEN Ret(0, b, FALSE, 0)
        ELSE IF winner = aiM THEN Ret(10 - depth, b, FALSE, 0)
        ELSE IF winner = humanM THEN Ret(depth - 10, b, FALSE, 0)
        ELSE IF isMaximizing
             THEN maximize(b, depth, 0, NegInfinity, alpha, beta, aiM, humanM, FALSE, 0)
             ELSE minimize(b, depth, 0, PosInfinity, alpha, beta, aiM, humanM, FALSE, 0)

\* minimax without the exit on a full board
minimaxNoFullBoardExit(b, depth, isMaximizing, alpha, beta, aiM, humanM) ==
    LET winner == getWinner(b)
    IN  IF winner = aiM THEN Ret(10 - depth, b, FALSE, 0)
        ELSE IF winner = humanM THEN Ret(depth - 10, b, FALSE, 0)
        ELSE IF isMaximizing
             THEN maximize(b, depth, 0, NegInfinity, alpha, beta, aiM, humanM, FALSE, 0)
             ELSE minimize(b, depth, 0, PosInfinity, alpha, beta, aiM, humanM, FALSE, 0)

\* minimax scoring a win 10 and a loss -10 at every depth
minimaxFlatScore(b, depth, isMaximizing, alpha, beta, aiM, humanM) ==
    LET winner == getWinner(b)
    IN  IF winner = aiM THEN Ret(10, b, FALSE, 0)
        ELSE IF winner = humanM THEN Ret(-10, b, FALSE, 0)
        ELSE IF ~includesEmpty(b) THEN Ret(0, b, FALSE, 0)
        ELSE IF isMaximizing
             THEN maximize(b, depth, 0, NegInfinity, alpha, beta, aiM, humanM, FALSE, 0)
             ELSE minimize(b, depth, 0, PosInfinity, alpha, beta, aiM, humanM, FALSE, 0)

minimax(b, depth, isMaximizing, alpha, beta, aiM, humanM) ==
    LET winner == getWinner(b)
    IN  IF winner = aiM THEN Ret(10 - depth, b, FALSE, 0)
        ELSE IF winner = humanM THEN Ret(depth - 10, b, FALSE, 0)
        ELSE IF ~includesEmpty(b) THEN Ret(0, b, FALSE, 0)
        ELSE IF isMaximizing
             THEN maximize(b, depth, 0, NegInfinity, alpha, beta, aiM, humanM, FALSE, 0)
             ELSE minimize(b, depth, 0, PosInfinity, alpha, beta, aiM, humanM, FALSE, 0)

(***************************************************************************)
(* Strategy selector.  Every strategy yields the chosen move AND the board *)
(* as the call leaves it.  rnd is Math.floor(Math.random() * empty.length).*)
(***************************************************************************)
\* the draw rounded to the nearest integer instead of down
randomRounded(len) == 0..len

\* The values Math.floor(Math.random() * len) can take: Math.random() is in [0, 1).
randomFloor(len) == IF len = 0 THEN {0} ELSE 0..(len - 1)

\* empty[rnd] on a JavaScript array: undefined when rnd is out of range.
easyMove(b, rnd) ==
    LET empty == getEmptyCells(b)
    IN  [move |-> IF rnd < Len(empty) THEN empty[rnd + 1] ELSE UndefinedIndex, board |-> b]

\* One of the two loops of mediumMove: the first pattern, from k on, where
\* findWinningMove finds a move for mark; null when the loop ends without one.
RECURSIVE firstWinningMove(_, _, _)
\* the same loop over the patterns in reverse order
firstWinningMoveReversed(b, mark, k) ==
    IF k > Len(WIN_PATTERNS) THEN NullIndex
    ELSE LET move == findWinningMove(b, WIN_PATTERNS[Len(WIN_PATTERNS) + 1 - k], mark)
         IN  IF move # NullIndex THEN move ELSE firstWinningMove(b, mark, k + 1)

firstWinningMove(b, mark, k) ==
    IF k > Len(WIN_PATTERNS) THEN NullIndex
    ELSE LET move == findWinningMove(b, WIN_PATTERNS[k], mark)
         IN  IF move # NullIndex THEN move ELSE firstWinningMove(b, mark, k + 1)

\* mediumMove with the block tried before the win
mediumMoveBlockFirst(b, aiM, humanM, rnd) ==
    LET block == firstWinningMove(b, humanM, 1)
    IN  IF block # NullIndex THEN [move |-> block, board |-> b]
        ELSE LET win == firstWinningMove(b, aiM, 1)
             IN  IF win # NullIndex THEN [move |-> win, board |-> b]
                 ELSE easyMove(b, rnd)

mediumMove(b, aiM, humanM, rnd) ==
    LET win == firstWinningMove(b, aiM, 1)
    IN  IF win # NullIndex THEN [move |-> win, board |-> b]
        ELSE LET block == firstWinningMove(b, humanM, 1)
             IN  IF block # NullIndex THEN [move |-> block, board |-> b]
                 ELSE easyMove(b, rnd)

\* The loop of hardMove over the empty cells, from position k of `empty` on.
RECURSIVE hardMoveFrom(_, _, _, _, _, _, _)
\* hardMove updating on >= instead of >
hardMoveFromLastBest(b, empty, k, bestScore, bestMove, aiM, humanM) ==
    IF k > Len(empty) THEN [move |-> bestMove, board |-> b]
    ELSE LET idx    == empty[k]
             r      == minimax([b EXCEPT ![idx] = aiM], 0, FALSE, NegInfinity, PosInfinity, aiM, humanM)
             undone == [r.board EXCEPT ![idx] = ""]
         IN  IF r.score >= bestScore
             THEN hardMoveFrom(undone, empty, k + 1, r.score, idx, aiM, humanM)
             ELSE hardMoveFrom(undone, empty, k + 1, bestScore, bestMove, aiM, humanM)

\* hardMove scoring each candidate as if the AI were to move again
hardMoveFromWrongSide(b, empty, k, bestScore, bestMove, aiM, humanM) ==
    IF k > Len(empty) THEN [move |-> bestMove, board |-> b]
    ELSE LET idx    == empty[k]
             r      == minimax([b EXCEPT ![idx] = aiM], 0, TRUE, NegInfinity, PosInfinity, aiM, humanM)
             undone == [r.board EXCEPT ![idx] = ""]
         IN  IF r.score > bestScore
             THEN hardMoveFrom(undone, empty, k + 1, r.score, idx, aiM, humanM)
             ELSE hardMoveFrom(undone, empty, k + 1, bestScore, bestMove, aiM, humanM)

hardMoveFrom(b, empty, k, bestScore, bestMove, aiM, humanM) ==
    IF k > Len(empty) THEN [move |-> bestMove, board |-> b]
    ELSE LET idx    == empty[k]
             r      == minimax([b EXCEPT ![idx] = aiM], 0, FALSE, NegInfinity, PosInfinity, aiM, humanM)
             undone == [r.board EXCEPT ![idx] = ""]
         IN  IF r.score > bestScore
             THEN hardMoveFrom(undone, empty, k + 1, r.score, idx, aiM, humanM)
             ELSE hardMoveFrom(undone, empty, k + 1, bestScore, bestMove, aiM, humanM)

\* hardMove with the best move starting at cell 0 instead of null
hardMoveBestStartsAtZero(b, aiM, humanM) ==
    hardMoveFrom(b, getEmptyCells(b), 1, NegInfinity, 0, aiM, humanM)

\* hardMove leaving its last trial placement on the board
hardMoveKeepsLastTrial(b, aiM, humanM) ==
    LET r == hardMoveFrom(b, getEmptyCells(b), 1, NegInfinity, NullIndex, aiM, humanM)
    IN  IF r.move = NullIndex THEN r
        ELSE [r EXCEPT !.board[getEmptyCells(b)[Len(getEmptyCells(b))]] = aiM]

hardMove(b, aiM, humanM) ==
    hardMoveFrom(b, getEmptyCells(b), 1, NegInfinity, NullIndex, aiM, humanM)

chooseMove(b, difficulty, aiM, humanM, rnd) ==
    CASE difficulty = "easy"   -> easyMove(b, rnd)
      [] difficulty = "medium" -> mediumMove(b, aiM, humanM, rnd)
      [] difficulty = "hard"   -> hardMove(b, aiM, humanM)
      [] OTHER                 -> easyMove(b, rnd)

(***************************************************************************)
(* Game controller (class Game) and the screen switch of UIManager.        *)
(* A handler is a function of the world w: the GameState (board,           *)
(* currentPlayer, playerMark, aiMark and the record state), the overlay,   *)
(* the pending timers and the history variable.                            *)
(***************************************************************************)
\* null where a timer id is expected; the ids setTimeout returns are positive
NoTimer == 0

Difficulties == {"easy", "medium", "hard"}

ScreenIds == {"menu", "difficulty", "side", "game"}

ZeroScores == [p1 |-> 0, draws |-> 0, p2 |-> 0]

\* The GameState main.ts creates: the fields kept in the record state.
InitialState ==
    [mode |-> Null, difficulty |-> Null, gameActive |-> FALSE, scores |-> ZeroScores,
     aiThinking |-> FALSE, aiTimeoutId |-> NoTimer, overlayTimeoutId |-> NoTimer,
     currentScreen |-> "menu", isTransitioning |-> FALSE, inputLocked |-> FALSE]

\* The id setTimeout returns: one no pending timer has.
freshId(ts) == CHOOSE n \in 1..(Cardinality(ts) + 1) : \A t \in ts : t.id # n

\* setTimeout(callback, delay): the callback is kept until it fires or is cleared.
setTimeout(ts, kind, screenId, onReady) ==
    ts \cup {[id |-> freshId(ts), kind |-> kind, screenId |-> screenId, onReady |-> onReady]}

\* clearTimeout(id)
clearTimeout(ts, id) == {t \in ts : t.id # id}

clearPendingTimers(w) ==
    LET w1 == IF w.state.aiTimeoutId # NoTimer
              THEN [w EXCEPT !.timers = clearTimeout(w.timers, w.state.aiTimeoutId),
                             !.state.aiTimeoutId = NoTimer]
              ELSE w
        w2 == IF w1.state.overlayTimeoutId # NoTimer
              THEN [w1 EXCEPT !.timers = clearTimeout(w1.timers, w1.state.overlayTimeoutId),
                              !.state.overlayTimeoutId = NoTimer]
              ELSE w1
    IN  [w2 EXCEPT !.state.aiThinking = FALSE]

\* scheduleAITurn that sets the thinking flag and starts no timer
scheduleAITurnNoTimer(w) == [w EXCEPT !.state.aiThinking = TRUE]

\* The part of scheduleAITurn that runs at once; the callback is aiTimerFires.
scheduleAITurn(w) ==
    [w EXCEPT !.state.aiThinking = TRUE,
              !.state.aiTimeoutId = freshId(w.timers),
              !.timers = setTimeout(w.timers, "ai", Null, FALSE)]

startGame(w) ==
    LET w1 == clearPendingTimers(w)
        w2 == [w1 EXCEPT !.board = EmptyBoard,
                         !.currentPlayer = "X",
                         !.state.gameActive = TRUE,
                         !.state.inputLocked = FALSE]
    IN  IF w2.state.mode = "pvai" /\ w2.aiMark = "X" THEN scheduleAITurn(w2) ELSE w2

\* showScreen without the test of isTransitioning
showScreenNoLock(w, screenId, onReady) ==
    IF w.state.currentScreen = screenId
    THEN IF onReady THEN startGame(w) ELSE w
    ELSE [w EXCEPT !.state.isTransitioning = TRUE,
                   !.timers = setTimeout(w.timers, "screen", screenId, onReady)]

\* The part of UIManager.showScreen that runs at once; the callback of its
\* timer is screenTimerFires.  onReady is either startGame or absent.
showScreen(w, screenId, onReady) ==
    IF w.state.isTransitioning THEN w
    ELSE IF w.state.currentScreen = screenId
    THEN IF onReady THEN startGame(w) ELSE w
    ELSE [w EXCEPT !.state.isTransitioning = TRUE,
                   !.timers = setTimeout(w.timers, "screen", screenId, onReady)]

screenTimerFires(w, t) ==
    LET w1 == [w EXCEPT !.timers = w.timers \ {t},
                        !.state.currentScreen = t.screenId,
                        !.state.isTransitioning = FALSE]
    IN  IF t.onReady THEN startGame(w1) ELSE w1

hideOverlay(w) == [w EXCEPT !.overlay = FALSE]

startPvP(w) ==
    LET w1 == [w EXCEPT !.state.mode = "pvp",
                        !.playerMark = "X",
                        !.aiMark = Null,
                        !.state.scores = ZeroScores,
                        !.roundsEnded = 0]
    IN  showScreen(w1, "game", TRUE)

startPvAI(w) == showScreen([w EXCEPT !.state.mode = "pvai"], "difficulty", FALSE)

setDifficulty(w, difficulty) ==
    showScreen([w EXCEPT !.state.difficulty = difficulty], "side", FALSE)

setSide(w, side) ==
    LET w1 == [w EXCEPT !.playerMark = side,
                        !.aiMark = Opponent(side),
                        !.state.scores = ZeroScores,
                        !.roundsEnded = 0]
    IN  showScreen(w1, "game", TRUE)

navigateBack(w, from) ==
    CASE from = "difficulty" -> showScreen(w, "menu", FALSE)
      [] from = "side"       -> showScreen(w, "difficulty", FALSE)
      [] from = "game"       -> showScreen(clearPendingTimers(w), "menu", FALSE)
      [] OTHER               -> w

placeMark(w, idx) == [w EXCEPT !.board[idx] = w.currentPlayer]

switchPlayer(w) == [w EXCEPT !.currentPlayer = Opponent(w.currentPlayer)]

\* the win counted for X as p1 and for O as p2 in both modes
updateWinStatusByMark(w, winner) ==
    IF winner = "X"
    THEN [w EXCEPT !.state.scores.p1 = @ + 1]
    ELSE [w EXCEPT !.state.scores.p2 = @ + 1]

updateWinStatus(w, winner) ==
    IF w.state.mode = "pvai"
    THEN IF winner = w.playerMark
         THEN [w EXCEPT !.state.scores.p1 = @ + 1]
         ELSE [w EXCEPT !.state.scores.p2 = @ + 1]
    ELSE IF winner = "X"
         THEN [w EXCEPT !.state.scores.p1 = @ + 1]
         ELSE [w EXCEPT !.state.scores.p2 = @ + 1]

\* The part of endGameWithWin / endGameWithDraw that schedules the overlay.
scheduleOverlay(w) ==
    [w EXCEPT !.state.overlayTimeoutId = freshId(w.timers),
              !.timers = setTimeout(w.timers, "overlay", Null, FALSE)]

endGameWithWin(w, result) == scheduleOverlay(updateWinStatus(w, result.winner))

endGameWithDraw(w) == scheduleOverlay([w EXCEPT !.state.scores.draws = @ + 1])

\* endGame leaving the round active
endGameStaysActive(w, result) ==
    LET w1 == [w EXCEPT !.state.inputLocked = TRUE,
                        !.roundsEnded = @ + 1]
    IN  IF result.type = "win" THEN endGameWithWin(w1, result) ELSE endGameWithDraw(w1)

endGame(w, result) ==
    LET w1 == [w EXCEPT !.state.gameActive = FALSE,
                        !.state.inputLocked = TRUE,
                        !.roundsEnded = @ + 1]
    IN  IF result.type = "win" THEN endGameWithWin(w1, result) ELSE endGameWithDraw(w1)

overlayTimerFires(w, t) ==
    [w EXCEPT !.timers = w.timers \ {t},
              !.state.overlayTimeoutId = NoTimer,
              !.overlay = TRUE]

\* the guards without the test of whose turn it is
cellActionIgnoredAnyTurn(w, cellIndex) ==
    \/ ~w.state.gameActive
    \/ w.board[cellIndex] # ""
    \/ w.state.aiThinking
    \/ w.state.inputLocked

\* The guards of handleCellAction: the action is ignored.
cellActionIgnored(w, cellIndex) ==
    \/ ~w.state.gameActive
    \/ w.board[cellIndex] # ""
    \/ w.state.aiThinking
    \/ w.state.inputLocked
    \/ (w.state.mode = "pvai" /\ w.currentPlayer # w.playerMark)

handleCellAction(w, cellIndex) ==
    IF cellActionIgnored(w, cellIndex) THEN w
    ELSE LET w1     == placeMark([w EXCEPT !.state.inputLocked = TRUE], cellIndex)
             result == checkResult(w1.board)
         IN  IF result # NoResult THEN endGame(w1, result)
             ELSE LET w2 == [switchPlayer(w1) EXCEPT !.state.inputLocked = FALSE]
                  IN  IF w2.state.mode = "pvai" /\ w2.state.gameActive
                      THEN scheduleAITurn(w2)
                      ELSE w2

\* if (move !== null && move !== undefined) this.placeMark(move)
placeMove(w, move) ==
    IF move # NullIndex /\ move # UndefinedIndex THEN placeMark(w, move) ELSE w

\* The callback of the timer of scheduleAITurn from the answer r of
\* chooseMove on: place the move, release the locks, check the result.
aiTurn(w, r) ==
    LET w2     == placeMove([w EXCEPT !.board = r.board], r.move)
        w3     == [w2 EXCEPT !.state.aiThinking = FALSE, !.state.inputLocked = FALSE]
        result == checkResult(w3.board)
    IN  IF result # NoResult THEN endGame(w3, result) ELSE switchPlayer(w3)

\* The callback of the timer of scheduleAITurn; rnd is the random draw of
\* the easy and the medium strategy.
aiTimerFires(w, t, rnd) ==
    LET w1 == [w EXCEPT !.timers = w.timers \ {t}, !.state.aiTimeoutId = NoTimer]
    IN  IF ~w1.state.gameActive THEN w1
        ELSE CHOOSE w2 \in {aiTurn(w1, r) :
                                r \in {chooseMove(w1.board, w1.state.difficulty,
                                                  w1.aiMark, w1.playerMark, rnd)}} : TRUE

\* Escape that leaves the side screen for the menu
handleEscapeSkipsLevel(w) ==
    IF w.overlay THEN showScreen(clearPendingTimers(hideOverlay(w)), "menu", FALSE)
    ELSE IF w.state.currentScreen = "game" THEN showScreen(clearPendingTimers(w), "menu", FALSE)
    ELSE IF w.state.currentScreen = "side" THEN showScreen(w, "menu", FALSE)
    ELSE IF w.state.currentScreen = "difficulty" THEN showScreen(w, "menu", FALSE)
    ELSE w

handleEscape(w) ==
    IF w.overlay THEN showScreen(clearPendingTimers(hideOverlay(w)), "menu", FALSE)
    ELSE IF w.state.currentScreen = "game" THEN showScreen(clearPendingTimers(w), "menu", FALSE)
    ELSE IF w.state.currentScreen = "side" THEN showScreen(w, "difficulty", FALSE)
    ELSE IF w.state.currentScreen = "difficulty" THEN showScreen(w, "menu", FALSE)
    ELSE w

handlePlayAgain(w) == startGame(hideOverlay(w))

handleChangeMode(w) == showScreen(clearPendingTimers(hideOverlay(w)), "menu", FALSE)

(***************************************************************************)
(* Bounds and input sets                                                   *)
(***************************************************************************)
\* Most empty cells of a board handed to the search.
MaxEmpty == 4

\* Greatest depth argument of a search call on a board of SearchBoards.
MaxDepth == 0

emptyCount(b) == Cardinality({i \in Indices : b[i] = ""})

AllBoards == [Indices -> BoardCells]

SearchBoards == {b \in AllBoards : emptyCount(b) <= MaxEmpty}

\* The alpha and the beta a search call is entered with.
Alphas == {NegInfinity, 0}

Betas == {0, PosInfinity}

\* The first three exits of minimax: a completed line or a full board.
isTerminal(b) == getWinner(b) # Null \/ ~includesEmpty(b)

Idle == [op |-> "none"]

\* The controller is as constructed and takes no step.
EngineOnly ==
    /\ state = InitialState
    /\ overlay = FALSE
    /\ timers = {}
    /\ roundsEnded = 0

InitEngine(boards) ==
    /\ board \in boards
    /\ ai \in Players
    /\ human = Opponent(ai)
    /\ currentPlayer = "X"
    /\ call = Idle
    /\ EngineOnly

(***************************************************************************)
(* Calls of the board-analysis functions on an arbitrary board             *)
(***************************************************************************)
CallGetWinner ==
    /\ call = Idle
    /\ call' = [op |-> "getWinner", ret |-> getWinner(board)]
    /\ UNCHANGED <<board, ai, human, currentPlayer, gameVars>>

CallGetEmptyCells ==
    /\ call = Idle
    /\ call' = [op |-> "getEmptyCells", ret |-> getEmptyCells(board)]
    /\ UNCHANGED <<board, ai, human, currentPlayer, gameVars>>

CallFindWinningMove ==
    /\ call = Idle
    /\ \E k \in 1..Len(WIN_PATTERNS), mark \in Players :
          call' = [op |-> "findWinningMove", pattern |-> WIN_PATTERNS[k], mark |-> mark,
                   ret |-> findWinningMove(board, WIN_PATTERNS[k], mark)]
    /\ UNCHANGED <<board, ai, human, currentPlayer, gameVars>>

CallCheckResult ==
    /\ call = Idle
    /\ call' = [op |-> "checkResult", ret |-> checkResult(board)]
    /\ UNCHANGED <<board, ai, human, currentPlayer, gameVars>>

InitAnalysis == InitEngine(AllBoards)

NextAnalysis ==
    \/ CallGetWinner
    \/ CallGetEmptyCells
    \/ CallFindWinningMove
    \/ CallCheckResult

SpecAnalysis == InitAnalysis /\ [][NextAnalysis]_vars

(***************************************************************************)
(* Calls of minimax.  The call works on the caller's board in place, so    *)
(* the board after the call is the board the call leaves.                  *)
(***************************************************************************)
CallMinimax(depths) ==
    /\ call = Idle
    /\ \E depth \in depths, isMaximizing \in BOOLEAN, alpha \in Alphas, beta \in Betas :
          \E r \in {minimax(board, depth, isMaximizing, alpha, beta, ai, human)} :
              /\ call' = [op |-> "minimax", before |-> board, depth |-> depth,
                          isMaximizing |-> isMaximizing, alpha |-> alpha, beta |-> beta,
                          ret |-> r.score, pruned |-> r.pruned, nest |-> r.nest]
              /\ board' = r.board
    /\ UNCHANGED <<ai, human, currentPlayer, gameVars>>

\* Search calls on the boards of at most MaxEmpty empty cells.
SearchCall == CallMinimax(0..MaxDepth)

InitSearch == InitEngine(SearchBoards)

NextSearch == SearchCall

SpecSearch == InitSearch /\ [][NextSearch]_vars

\* Calls on the boards the recursion ends at, at every depth a 9-cell board allows.
TerminalCall == isTerminal(board) /\ CallMinimax(0..9)

InitTerminal == InitEngine(AllBoards)

NextTerminal == TerminalCall

SpecTerminal == InitTerminal /\ [][NextTerminal]_vars

(***************************************************************************)
(* Calls of chooseMove                                                     *)
(***************************************************************************)
CallChooseMove(difficulty) ==
    /\ call = Idle
    /\ \E rnd \in IF difficulty = "hard" THEN {0} ELSE randomFloor(emptyCount(board)) :
          \E r \in {chooseMove(board, difficulty, ai, human, rnd)} :
              /\ call' = [op |-> "chooseMove", before |-> board, difficulty |-> difficulty,
                          ret |-> r.move]
              /\ board' = r.board
    /\ UNCHANGED <<ai, human, currentPlayer, gameVars>>

MediumCall == CallChooseMove("medium")

InitMedium == InitEngine(AllBoards)

NextMedium == MediumCall

SpecMedium == InitMedium /\ [][NextMedium]_vars

HardCall == CallChooseMove("hard")

InitHard == InitEngine(SearchBoards)

NextHard == HardCall

SpecHard == InitHard /\ [][NextHard]_vars

(***************************************************************************)
(* The hard strategy on every board that has no completed line and an      *)
(* empty cell completing a line of the AI's mark.                          *)
(***************************************************************************)
\* The empty cells of b that complete a line of mark.
winningCells(b, mark) ==
    {i \in Indices : b[i] = "" /\ getWinner([b EXCEPT ![i] = mark]) = mark}

InitWin ==
    /\ InitEngine(AllBoards)
    /\ getWinner(board) = Null
    /\ winningCells(board, ai) # {}

NextWin == HardCall

SpecWin == InitWin /\ [][NextWin]_vars

(***************************************************************************)
(* Calls of chooseMove at every difficulty.  The hard strategy searches,   *)
(* so it is called on the boards of at most MaxEmpty empty cells.          *)
(***************************************************************************)
ChooseCall ==
    \E difficulty \in Difficulties :
        /\ difficulty = "hard" => emptyCount(board) <= MaxEmpty
        /\ CallChooseMove(difficulty)

InitChoose == InitEngine(AllBoards)

NextChoose == ChooseCall

SpecChoose == InitChoose /\ [][NextChoose]_vars

(***************************************************************************)
(* chooseMove on a board without an empty cell, and the use the AI timer   *)
(* callback makes of its result.                                           *)
(***************************************************************************)
FullBoards == {b \in AllBoards : ~includesEmpty(b)}

World ==
    [board |-> board, currentPlayer |-> currentPlayer, playerMark |-> human, aiMark |-> ai,
     state |-> state, overlay |-> overlay, timers |-> timers, roundsEnded |-> roundsEnded]

\* const move = AIEngine.chooseMove(...); if (move !== null && move !== undefined) placeMark(move)
AITurnCall ==
    /\ call = Idle
    /\ \E difficulty \in Difficulties, rnd \in randomFloor(emptyCount(board)) :
          \E r \in {chooseMove(board, difficulty, ai, human, rnd)} :
              /\ call' = [op |-> "aiTurn", before |-> board, difficulty |-> difficulty,
                          ret |-> r.move]
              /\ board' = placeMove([World EXCEPT !.board = r.board], r.move).board
    /\ UNCHANGED <<ai, human, currentPlayer, gameVars>>

FullBoardCall == \E difficulty \in Difficulties : CallChooseMove(difficulty)

InitFull == InitEngine(FullBoards)

NextFull == FullBoardCall \/ AITurnCall

SpecFull == InitFull /\ [][NextFull]_vars

(***************************************************************************)
(* A whole game of the hard strategy against every human (aiNeverLoses).   *)
(* X moves first; the game stops at a completed line or a full board.      *)
(***************************************************************************)
InitPlay ==
    /\ board = EmptyBoard
    /\ ai \in Players
    /\ human = Opponent(ai)
    /\ currentPlayer = "X"
    /\ call = Idle
    /\ EngineOnly

AIMove ==
    /\ ~isTerminal(board)
    /\ currentPlayer = ai
    /\ \E r \in {chooseMove(board, "hard", ai, human, 0)} :
          board' = [r.board EXCEPT ![r.move] = ai]
    /\ currentPlayer' = human
    /\ UNCHANGED <<ai, human, call, gameVars>>

HumanMove ==
    /\ ~isTerminal(board)
    /\ currentPlayer = human
    /\ \E idx \in Indices :
          /\ board[idx] = ""
          /\ board' = [board EXCEPT ![idx] = human]
    /\ currentPlayer' = ai
    /\ UNCHANGED <<ai, human, call, gameVars>>

NextPlay == AIMove \/ HumanMove

SpecPlay == InitPlay /\ [][NextPlay]_vars

(***************************************************************************)
(* Legal alternating play from the empty board, as handleCellAction plays  *)
(* it between two players: the current player's mark goes to an empty      *)
(* cell, the round stops when checkResult reports a win or a draw, and     *)
(* otherwise the turn passes to the other player.                          *)
(***************************************************************************)
\* play in which the turn never passes
LegalMoveSamePlayer ==
    /\ checkResult(board) = NoResult
    /\ \E idx \in Indices :
          /\ board[idx] = ""
          /\ board' = [board EXCEPT ![idx] = currentPlayer]
    /\ UNCHANGED <<currentPlayer, ai, human, call, gameVars>>

\* play that goes on after a completed line
LegalMoveAfterLine ==
    /\ \E idx \in Indices :
          /\ board[idx] = ""
          /\ board' = [board EXCEPT ![idx] = currentPlayer]
    /\ currentPlayer' = Opponent(currentPlayer)
    /\ UNCHANGED <<ai, human, call, gameVars>>

LegalMove ==
    /\ checkResult(board) = NoResult
    /\ \E idx \in Indices :
          /\ board[idx] = ""
          /\ board' = [board EXCEPT ![idx] = currentPlayer]
    /\ currentPlayer' = Opponent(currentPlayer)
    /\ UNCHANGED <<ai, human, call, gameVars>>

InitLegal == InitEngine({EmptyBoard})

NextLegal == LegalMove

SpecLegal == InitLegal /\ [][NextLegal]_vars

(***************************************************************************)
(* The game: the handlers main.ts wires to the controls, and the timer     *)
(* callbacks.  A control takes events while its screen is the current one  *)
(* (the screen stays current until the timer of the switch fires), the two *)
(* overlay buttons while the overlay is shown, Escape always.  Pending     *)
(* timers fire in any order.                                               *)
(***************************************************************************)
\* Most rounds ended without a reset of the scores: Play Again is not taken
\* once the three counters add up to it.
MaxRounds == 2

\* A click goes to an occupied cell or to one of the first MaxChoice empty
\* cells, and the random draw of easy and medium is one of the first
\* MaxChoice values.
MaxChoice == 2

\* The hard strategy answers the AI timer on a board of at most MaxHardEmpty
\* empty cells: the AI that plays O at hard takes every one of its turns, the
\* AI that opens as X at hard stays pending until the player leaves the round.
MaxHardEmpty == 8

clickedCells(b) ==
    LET empty == getEmptyCells(b)
    IN  {i \in Indices : b[i] # ""} \cup {empty[k] : k \in 1..MathMin(Len(empty), MaxChoice)}

randomDraws(difficulty, b) ==
    IF difficulty = "hard" THEN {0}
    ELSE {rnd \in randomFloor(emptyCount(b)) : rnd < MaxChoice}

Becomes(w) ==
    /\ board' = w.board
    /\ currentPlayer' = w.currentPlayer
    /\ human' = w.playerMark
    /\ ai' = w.aiMark
    /\ state' = w.state
    /\ overlay' = w.overlay
    /\ timers' = w.timers
    /\ roundsEnded' = w.roundsEnded
    /\ UNCHANGED call

InitGame ==
    /\ board = EmptyBoard
    /\ currentPlayer = "X"
    /\ human = "X"
    /\ ai = "O"
    /\ call = Idle
    /\ EngineOnly

StartPvP ==
    /\ state.currentScreen = "menu"
    /\ \E w \in {startPvP(World)} : Becomes(w)

StartPvAI ==
    /\ state.currentScreen = "menu"
    /\ \E w \in {startPvAI(World)} : Becomes(w)

SetDifficulty ==
    /\ state.currentScreen = "difficulty"
    /\ \E difficulty \in Difficulties :
          \E w \in {setDifficulty(World, difficulty)} : Becomes(w)

SetSide ==
    /\ state.currentScreen = "side"
    /\ \E side \in Players :
          \E w \in {setSide(World, side)} : Becomes(w)

NavigateBack ==
    /\ state.currentScreen \in {"difficulty", "side"}
    /\ \E w \in {navigateBack(World, state.currentScreen)} : Becomes(w)

HandleCellAction ==
    /\ state.currentScreen = "game"
    /\ \E cellIndex \in clickedCells(board) :
          \E w \in {handleCellAction(World, cellIndex)} : Becomes(w)

HandleEscape == \E w \in {handleEscape(World)} : Becomes(w)

HandlePlayAgain ==
    /\ overlay
    /\ state.scores.p1 + state.scores.draws + state.scores.p2 < MaxRounds
    /\ \E w \in {handlePlayAgain(World)} : Becomes(w)

HandleChangeMode ==
    /\ overlay
    /\ \E w \in {handleChangeMode(World)} : Becomes(w)

AITimerFires ==
    \E t \in timers :
        /\ t.kind = "ai"
        /\ (state.gameActive /\ state.difficulty = "hard") => emptyCount(board) <= MaxHardEmpty
        /\ \E rnd \in randomDraws(state.difficulty, board) :
              \E w \in {aiTimerFires(World, t, rnd)} : Becomes(w)

OverlayTimerFires ==
    \E t \in timers :
        /\ t.kind = "overlay"
        /\ \E w \in {overlayTimerFires(World, t)} : Becomes(w)

ScreenTimerFires ==
    \E t \in timers :
        /\ t.kind = "screen"
        /\ \E w \in {screenTimerFires(World, t)} : Becomes(w)

NextGame ==
    \/ StartPvP
    \/ StartPvAI
    \/ SetDifficulty
    \/ SetSide
    \/ NavigateBack
    \/ HandleCellAction
    \/ HandleEscape
    \/ HandlePlayAgain
    \/ HandleChangeMode
    \/ AITimerFires
    \/ OverlayTimerFires
    \/ ScreenTimerFires

SpecGame == InitGame /\ [][NextGame]_vars

(***************************************************************************)
(* The sessions of Player vs AI: every control but the Player-vs-Player    *)
(* button, so that each round is entered through the difficulty and the    *)
(* side screen.                                                            *)
(***************************************************************************)
NextSession ==
    \/ StartPvAI
    \/ SetDifficulty
    \/ SetSide
    \/ NavigateBack
    \/ HandleCellAction
    \/ HandleEscape
    \/ HandlePlayAgain
    \/ HandleChangeMode
    \/ AITimerFires
    \/ OverlayTimerFires
    \/ ScreenTimerFires

SpecSession == InitGame /\ [][NextSession]_vars

(***************************************************************************)
(* A Player-vs-AI session in which the player neither navigates away nor   *)
(* restarts: the setup flow, the clicks on the cells and the timers.  A    *)
(* timer setTimeout holds fires unless it is cleared: weak fairness of the *)
(* callback of the AI timer.  Fairness is stated for the rounds of easy    *)
(* and medium; at hard the callback is covered by the safety part of the   *)
(* response property (the timer is pending and its step answers).          *)
(***************************************************************************)
NextRespond ==
    \/ StartPvAI
    \/ SetDifficulty
    \/ SetSide
    \/ HandleCellAction
    \/ AITimerFires
    \/ OverlayTimerFires
    \/ ScreenTimerFires

FairAITimer == state.difficulty # "hard" /\ AITimerFires

SpecRespond == InitGame /\ [][NextRespond]_vars /\ WF_vars(FairAITimer)

Init == InitAnalysis

Next == NextAnalysis

Spec == Init /\ [][Next]_vars

(***************************************************************************)
(* Properties.  The vocabulary below is defined on the board alone.        *)
(***************************************************************************)
\* Line k (1..8) has mark m in its three cells.
holdsLine(b, k, m) == \A j \in 1..3 : b[WIN_PATTERNS[k][j]] = m

\* The lines with three equal non-empty cells.
completeLines(b) == {k \in 1..8 : \E m \in Players : holdsLine(b, k, m)}

least(S) == CHOOSE k \in S : \A j \in S : k <= j

C6_CheckResult ==
    call.op = "checkResult" =>
        IF completeLines(board) # {}
        THEN /\ call.ret.type = "win"
             /\ call.ret.winner \in Players
             /\ call.ret.pattern =
                    WIN_PATTERNS[least({k \in 1..8 : holdsLine(board, k, call.ret.winner)})]
             /\ call.ret.winner = getWinner(board)
        ELSE /\ call.ret = IF \A i \in Indices : board[i] # "" THEN [type |-> "draw"] ELSE NoResult
             /\ getWinner(board) = Null

\* checkResult reported a win on a full board.
C6_Witness ==
    /\ call.op = "checkResult"
    /\ call.ret.type = "win"
    /\ \A i \in Indices : board[i] # ""

\* C7: findWinningMove(board, line, mark) returns the single empty cell of
\* the line if and only if exactly two cells of the line hold mark and
\* exactly one is empty; it returns none in every other case.
C7_FindWinningMove ==
    call.op = "findWinningMove" =>
        LET cells    == {call.pattern[j] : j \in 1..3}
            marked   == {c \in cells : board[c] = call.mark}
            unmarked == {c \in cells : board[c] = ""}
        IN  IF Cardinality(marked) = 2 /\ Cardinality(unmarked) = 1
            THEN call.ret \in unmarked
            ELSE call.ret = NullIndex

\* findWinningMove found the empty cell of a line with two marks.
C7_Witness ==
    /\ call.op = "findWinningMove"
    /\ call.ret \in Indices
    /\ board[call.ret] = ""

\* The cells that are empty and complete a line for mark m when m is placed there.
completing(b, m) ==
    {c \in Indices :
        /\ b[c] = ""
        /\ \E k \in 1..8 : /\ c \in {WIN_PATTERNS[k][j] : j \in 1..3}
                            /\ holdsLine([b EXCEPT ![c] = m], k, m)}

twoAndEmpty(b, k, m) ==
    /\ Cardinality({j \in 1..3 : b[WIN_PATTERNS[k][j]] = m}) = 2
    /\ Cardinality({j \in 1..3 : b[WIN_PATTERNS[k][j]] = ""}) = 1

emptyCellOf(b, k) == CHOOSE c \in {WIN_PATTERNS[k][j] : j \in 1..3} : b[c] = ""

\* C9: when several lines offer an AI win, medium returns the empty cell of
\* the first of them in the order of WIN_PATTERNS; when no line offers an AI
\* win and several offer a block, the empty cell of the first line holding
\* two human marks and one empty cell.
C9_MediumTieBreak ==
    (call.op = "chooseMove" /\ call.difficulty = "medium") =>
        LET wins   == {k \in 1..8 : twoAndEmpty(call.before, k, ai)}
            blocks == {k \in 1..8 : twoAndEmpty(call.before, k, human)}
        IN  /\ wins # {} => call.ret = emptyCellOf(call.before, least(wins))
            /\ (wins = {} /\ blocks # {}) => call.ret = emptyCellOf(call.before, least(blocks))

\* medium chose among winning lines that offer different cells.
C9_Witness ==
    /\ call.op = "chooseMove" /\ call.difficulty = "medium"
    /\ LET wins == {k \in 1..8 : twoAndEmpty(call.before, k, ai)}
       IN  /\ Cardinality({emptyCellOf(call.before, k) : k \in wins}) >= 2
           /\ call.ret = emptyCellOf(call.before, least(wins))

\* C2: minimax returns with the board equal, cell by cell, to the board it
\* was given, whatever the depth, the side to move and the window, also when
\* a pruning break ended a candidate loop early.
C2_BoardRestored ==
    call.op = "minimax" => \A i \in Indices : board[i] = call.before[i]

\* A minimax call in which a break skipped at least one empty cell has returned.
C2_Witness ==
    /\ call.op = "minimax"
    /\ call.pruned
    /\ call.alpha = NegInfinity /\ call.beta = 0

\* Exhaustive minimax: the recursion of minimax without the two breaks, with
\* the same terminal scores.
RECURSIVE plainMinimax(_, _, _, _, _)
plainMinimax(b, depth, isMaximizing, aiM, humanM) ==
    IF \E k \in 1..8 : holdsLine(b, k, aiM) \/ holdsLine(b, k, humanM)
    THEN IF holdsLine(b, least(completeLines(b)), aiM) THEN 10 - depth ELSE depth - 10
    ELSE IF \A i \in Indices : b[i] # "" THEN 0
    ELSE LET scores == {plainMinimax([b EXCEPT ![i] = IF isMaximizing THEN aiM ELSE humanM],
                                     depth + 1, ~isMaximizing, aiM, humanM) :
                            i \in {j \in Indices : b[j] = ""}}
         IN  IF isMaximizing
             THEN CHOOSE x \in scores : \A y \in scores : y <= x
             ELSE CHOOSE x \in scores : \A y \in scores : x <= y

\* C3: called with alpha = -Infinity and beta = +Infinity, minimax returns
\* the score of exhaustive minimax of the same board, depth and side to move.
C3_PruningKeepsScore ==
    (call.op = "minimax" /\ call.alpha = NegInfinity /\ call.beta = PosInfinity) =>
        call.ret = plainMinimax(call.before, call.depth, call.isMaximizing, ai, human)

\* A full-window call in which a break skipped at least one empty cell.
C3_Witness ==
    /\ call.op = "minimax"
    /\ call.alpha = NegInfinity /\ call.beta = PosInfinity
    /\ call.pruned

C1_HardNeverLoses ==
    /\ \A k \in 1..8 : ~holdsLine(board, k, human)
    /\ (completeLines(board) # {} \/ \A i \in Indices : board[i] # "") =>
           \/ \E k \in 1..8 : holdsLine(board, k, ai)
           \/ completeLines(board) = {} /\ \A i \in Indices : board[i] # ""

\* A game the human opened has ended with a line of the AI mark.
C1_Witness ==
    /\ ai = "O"
    /\ Cardinality({i \in Indices : board[i] = "X"}) = Cardinality({i \in Indices : board[i] = "O"})
    /\ \E k \in 1..8 : holdsLine(board, k, ai)

\* C10: on a board with an empty cell, hard returns the smallest index among
\* the empty cells of maximal score, the score of a cell being minimax of the
\* board with the AI mark placed there, at depth 0, human to move, full
\* window; the move is thereby a function of the board and the two marks.
C10_HardTieBreak ==
    (call.op = "chooseMove" /\ call.difficulty = "hard" /\ \E i \in Indices : call.before[i] = "") =>
        LET empties == {i \in Indices : call.before[i] = ""}
            score   == [i \in empties |->
                           minimax([call.before EXCEPT ![i] = ai], 0, FALSE,
                                   NegInfinity, PosInfinity, ai, human).score]
            top     == {i \in empties : \A j \in empties : score[j] <= score[i]}
        IN  call.ret = least(top)

\* hard broke a tie: two cells share the maximal score, and a cell of smaller
\* index than the returned one scores less.
C10_Witness ==
    /\ call.op = "chooseMove" /\ call.difficulty = "hard"
    /\ LET empties == {i \in Indices : call.before[i] = ""}
            score   == [i \in empties |->
                           minimax([call.before EXCEPT ![i] = ai], 0, FALSE,
                                   NegInfinity, PosInfinity, ai, human).score]
            top     == {i \in empties : \A j \in empties : score[j] <= score[i]}
       IN  /\ Cardinality(top) >= 2
           /\ call.ret = least(top)
           /\ \E i \in empties : i < call.ret /\ score[i] < score[call.ret]

\* C11: on a board with at least one empty cell, chooseMove returns, at
\* every difficulty, an index in 0..8 whose cell is empty on that board; easy
\* returns nothing but empty cells and can return each of them, so with one
\* empty cell it returns that cell.
C11_ChooseMoveEmptyCell ==
    /\ (call.op = "chooseMove" /\ \E i \in Indices : call.before[i] = "") =>
           (call.ret \in Indices /\ call.before[call.ret] = "")
    /\ call = Idle =>
           \A c \in {i \in Indices : board[i] = ""} :
               \E rnd \in randomFloor(emptyCount(board)) :
                   chooseMove(board, "easy", ai, human, rnd).move = c

\* easy returned the last of several empty cells.
C11_Witness ==
    /\ call.op = "chooseMove" /\ call.difficulty = "easy"
    /\ Cardinality({i \in Indices : call.before[i] = ""}) >= 2
    /\ \A i \in Indices : call.before[i] = "" => i <= call.ret

C13_ChooseMoveFrame ==
    call.op = "chooseMove" => \A i \in Indices : board[i] = call.before[i]

\* hard returned a move after trial placements on several empty cells.
C13_Witness ==
    /\ call.op = "chooseMove" /\ call.difficulty = "hard"
    /\ Cardinality({i \in Indices : call.before[i] = ""}) >= 3
    /\ call.ret \in Indices
    /\ board = call.before

\* C14: getEmptyCells returns exactly the indices of the empty cells, each
\* once, in strictly ascending order: all 9 for the empty board, the empty
\* sequence for a full board.
C14_GetEmptyCells ==
    call.op = "getEmptyCells" =>
        /\ {call.ret[k] : k \in 1..Len(call.ret)} = {i \in Indices : board[i] = ""}
        /\ \A k \in 1..(Len(call.ret) - 1) : call.ret[k] < call.ret[k + 1]
        /\ board = EmptyBoard => call.ret = <<0, 1, 2, 3, 4, 5, 6, 7, 8>>
        /\ (\A i \in Indices : board[i] # "") => call.ret = <<>>

\* getEmptyCells returned several cells, the first of them cell 0.
C14_Witness ==
    /\ call.op = "getEmptyCells"
    /\ Len(call.ret) >= 2
    /\ call.ret[1] = 0
    /\ \E i \in Indices : board[i] # ""

\* C15: every minimax call returns a finite score, and the calls nested in
\* it are at most as deep as the board it was given has empty cells.
C15_SearchCompletes ==
    call.op = "minimax" =>
        /\ call.ret \in (0 - 10)..10
        /\ call.nest <= Cardinality({i \in Indices : call.before[i] = ""})

\* A call whose nested calls went as deep as the board has empty cells.
C15_Witness ==
    /\ call.op = "minimax"
    /\ Cardinality({i \in Indices : call.before[i] = ""}) >= 3
    /\ call.nest = Cardinality({i \in Indices : call.before[i] = ""})

\* The cells of line k.
cellsOf(k) == {WIN_PATTERNS[k][j] : j \in 1..3}

\* C16 (as stated): on every board of legal alternating play that stops at
\* the first completed line, at most one of the 8 lines is completed.
C16_AsStated == Cardinality(completeLines(board)) <= 1

\* C16 (amended): on every such board at most two lines are completed, and
\* two completed lines hold the same mark and cross in one cell.
C16_AtMostTwoCrossingLines ==
    LET lines == completeLines(board)
    IN  /\ Cardinality(lines) <= 2
        /\ \A j, k \in lines :
              j # k => /\ board[WIN_PATTERNS[j][1]] = board[WIN_PATTERNS[k][1]]
                       /\ Cardinality(cellsOf(j) \cap cellsOf(k)) = 1

\* The last mark completed both diagonals at once.
C16_Witness == {7, 8} \subseteq completeLines(board)

\* getWinner with the 8 lines enumerated in the given order.
RECURSIVE winnerInOrder(_, _)
winnerInOrder(b, order) ==
    IF order = <<>> THEN Null
    ELSE IF lineComplete(b, WIN_PATTERNS[Head(order)]) THEN b[WIN_PATTERNS[Head(order)][1]]
    ELSE winnerInOrder(b, Tail(order))

\* For each line the order that has it first, and the reversed order: the
\* line an order reports is its first completed line, and every completed
\* line is the first one of some order below.
LineOrders ==
    {<<k>> \o SelectSeq(<<1, 2, 3, 4, 5, 6, 7, 8>>, LAMBDA j : j # k) : k \in 1..8}
        \cup {<<8, 7, 6, 5, 4, 3, 2, 1>>}

\* C17: on every board of legal alternating play that stops at the first
\* completed line, all completed lines hold the same mark, and the winner
\* getWinner and checkResult report is the winner under every order of the
\* 8 lines.
C17_OrderIndependentWinner ==
    /\ \A j, k \in completeLines(board) :
          board[WIN_PATTERNS[j][1]] = board[WIN_PATTERNS[k][1]]
    /\ \A order \in LineOrders : winnerInOrder(board, order) = getWinner(board)
    /\ completeLines(board) # {} =>
          /\ checkResult(board).type = "win"
          /\ checkResult(board).winner = getWinner(board)

\* Two lines are completed, and the reported line is the first of them: an
\* order with the second line first reports the other line and the same mark.
C17_Witness ==
    /\ completeLines(board) = {1, 4}
    /\ checkResult(board).pattern = WIN_PATTERNS[1]
    /\ winnerInOrder(board, <<4, 1, 2, 3, 5, 6, 7, 8>>) = getWinner(board)

\* C18: handleCellAction(i) changes nothing (board, currentPlayer, marks,
\* scores, flags, overlay, timers) when the round is not active, cell i is
\* occupied, the AI is thinking, input is locked, or, in pvai mode, the
\* current player is not the human's mark.
C18_IgnoredCellAction ==
    \A cellIndex \in Indices :
        (\/ ~state.gameActive
         \/ board[cellIndex] # ""
         \/ state.aiThinking
         \/ state.inputLocked
         \/ (state.mode = "pvai" /\ currentPlayer # human))
            => handleCellAction(World, cellIndex) = World

\* On the game screen, in an active pvai round with no lock and no thinking
\* AI, the human has moved, it is the turn of the AI's mark and a cell is
\* empty: only the turn test rejects.
C18_Witness ==
    /\ state.currentScreen = "game"
    /\ state.mode = "pvai"
    /\ state.gameActive /\ ~state.aiThinking /\ ~state.inputLocked
    /\ human \in Players /\ currentPlayer = ai
    /\ \E i \in Indices : board[i] = human
    /\ \E i \in Indices : board[i] = ""

\* C19: the step that places a mark completing a line or filling the board
\* sets gameActive to false and inputLocked to true; while gameActive stays
\* false no mark is placed and currentPlayer does not change, and gameActive
\* becomes true again only with the board emptied and X to move (startGame).
C19_RoundEnd ==
    [][/\ (board' # board /\ checkResult(board') # NoResult) =>
              (~state'.gameActive /\ state'.inputLocked)
       /\ (~state.gameActive /\ ~state'.gameActive) =>
              (board' = board /\ currentPlayer' = currentPlayer)
       /\ (~state.gameActive /\ state'.gameActive) =>
              (board' = EmptyBoard /\ currentPlayer' = "X")]_vars

\* A move of the AI completed a line: the round is over and the overlay is up.
C19_Witness ==
    /\ state.mode = "pvai"
    /\ ~state.gameActive /\ state.inputLocked
    /\ overlay
    /\ checkResult(board).type = "win"
    /\ checkResult(board).winner = ai

\* C20: the three counters add up to the rounds ended since the last reset;
\* the step that ends a round adds 1 to exactly one counter (draws on a
\* draw; on a win p1 for the human's mark and p2 otherwise in pvai, p1 for X
\* and p2 for O in pvp), once per round; Play Again leaves the counters as
\* they are, and any other change of them is the reset to 0 of startPvP or
\* setSide.
C20_SessionScore ==
    /\ [](state.scores.p1 + state.scores.draws + state.scores.p2 = roundsEnded)
    /\ [][LET result   == checkResult(board')
              counter  == IF result.type = "draw" THEN "draws"
                          ELSE IF state'.mode = "pvai"
                               THEN IF result.winner = human' THEN "p1" ELSE "p2"
                               ELSE IF result.winner = "X" THEN "p1" ELSE "p2"
          IN  /\ roundsEnded' = roundsEnded + 1 =>
                     /\ state.gameActive /\ ~state'.gameActive
                     /\ result # NoResult
                     /\ state'.scores = [state.scores EXCEPT ![counter] = @ + 1]
              /\ (state.gameActive /\ ~state'.gameActive) => roundsEnded' = roundsEnded + 1
              /\ HandlePlayAgain => state'.scores = state.scores
              /\ (state'.scores # state.scores /\ roundsEnded' # roundsEnded + 1) =>
                     /\ state'.scores = ZeroScores
                     /\ StartPvP \/ SetSide]_vars

\* Two rounds of one pvai session ended, one won by each side.
C20_Witness ==
    /\ state.mode = "pvai"
    /\ roundsEnded = 2
    /\ state.scores.p1 = 1
    /\ state.scores.p2 = 1

\* The human has moved in an active pvai round and the AI is thinking.
AwaitingAI ==
    /\ state.mode = "pvai"
    /\ state.gameActive /\ state.aiThinking
    /\ \E i \in Indices : board[i] = human

\* The round is over, or the turn is back with the human and nothing is locked.
AIResponded ==
    \/ ~state.gameActive
    \/ (currentPlayer = human /\ ~state.aiThinking /\ ~state.inputLocked)

RoundTimerPending(ts) == \E t \in ts : t.kind \in {"ai", "overlay"}

\* C22: when the player leaves the game screen (Escape on the game screen or
\* on the overlay, Change Mode) the pending AI-move and overlay timers are
\* cancelled, and under every interleaving no AI mark is placed and no
\* game-over overlay is shown while the current screen is not the game screen.
C22_NoStaleCallbacks ==
    /\ [](overlay => state.currentScreen = "game")
    /\ [][/\ ((HandleEscape /\ (overlay \/ state.currentScreen = "game")) \/ HandleChangeMode)
               => ~RoundTimerPending(timers')
          /\ (AITimerFires /\ board' # board) => state.currentScreen = "game"
          /\ (OverlayTimerFires /\ overlay') => state.currentScreen = "game"]_vars

\* The pending screen switches.
screenTimers(ts) == {t \in ts : t.kind = "screen"}

\* The screen the game screen was entered from: setSide alone gives the AI a
\* mark and it is called on the side screen, startPvP takes the mark away.
enteredFrom == IF ai # Null THEN "side" ELSE "menu"

\* A step of Escape leaves currentScreen as it is and, unless a switch is
\* pending or the target is the current screen, starts the switch to target.
EscapeGoesTo(target) ==
    /\ state'.currentScreen = state.currentScreen
    /\ IF state.isTransitioning \/ target = state.currentScreen
       THEN /\ screenTimers(timers') = screenTimers(timers)
            /\ state'.isTransitioning = state.isTransitioning
       ELSE /\ state'.isTransitioning
            /\ \E t \in timers' :
                  /\ screenTimers(timers') = {t}
                  /\ t.screenId = target /\ ~t.onReady

C24_TransitionLock ==
    /\ [](state.isTransitioning =>
              \A screenId \in ScreenIds, onReady \in BOOLEAN :
                  showScreen(World, screenId, onReady) = World)
    /\ [](/\ Cardinality(screenTimers(timers)) <= 1
          /\ state.isTransitioning <=> screenTimers(timers) # {})
    /\ [][/\ (state.isTransitioning /\ screenTimers(timers') = screenTimers(timers)) =>
                /\ state'.currentScreen = state.currentScreen
                /\ state'.isTransitioning
          /\ (state.isTransitioning /\ (StartPvP \/ SetSide)) =>
                /\ board' = board /\ currentPlayer' = currentPlayer
                /\ state'.gameActive = state.gameActive
                /\ timers' = timers
          /\ state'.currentScreen # state.currentScreen =>
                \E t \in timers :
                    /\ screenTimers(timers) = {t} /\ t \notin timers'
                    /\ state'.currentScreen = t.screenId
                    /\ ~state'.isTransitioning
          /\ (~state.gameActive /\ state'.gameActive /\ ~HandlePlayAgain) =>
                \E t \in timers :
                    /\ screenTimers(timers) = {t} /\ t \notin timers'
                    /\ t.onReady /\ t.screenId = "game"
                    /\ state'.currentScreen = "game"]_vars

\* Player vs AI was clicked while the switch to the game screen started by
\* Player vs Player was pending: the mode changed, the one pending switch is
\* still the one to the game screen.
C24_Witness ==
    /\ state.mode = "pvai"
    /\ state.currentScreen = "menu" /\ state.isTransitioning
    /\ \E t \in timers : screenTimers(timers) = {t} /\ t.screenId = "game" /\ t.onReady

\* C25: in every reachable state with an active round, mode pvp implies
\* aiMark = null, and mode pvai implies a non-null difficulty and aiMark the
\* mark opposite to playerMark; the callback of the AI timer never calls
\* chooseMove with a null difficulty or a null aiMark.
C25_ConfigurationConsistent ==
    /\ [](state.gameActive =>
              /\ state.mode = "pvp" => ai = Null
              /\ state.mode = "pvai" =>
                    /\ state.difficulty # Null
                    /\ human \in Players /\ ai = Opponent(human))
    /\ [][(AITimerFires /\ state.gameActive) =>
              (state.difficulty # Null /\ ai # Null)]_vars

\* The number of cells of b that hold mark.
countOf(b, mark) == Cardinality({i \in Indices : b[i] = mark})

\* The step runs startGame: Play Again, or the timer of a switch with onReady.
StartGameStep ==
    \/ HandlePlayAgain
    \/ \E t \in timers : t.kind = "screen" /\ t.onReady /\ t \notin timers'

\* C26: after startGame the board has 9 empty cells and X moves first; a
\* mark is only ever written to a cell that was empty; the number of X marks
\* minus the number of O marks is 0 or 1; while the round is active
\* currentPlayer is X exactly when the two counts are equal; in pvai the
\* mark the AI timer places is the AI's mark.
C26_TurnOrder ==
    /\ [](countOf(board, "X") - countOf(board, "O") \in {0, 1})
    /\ [](state.gameActive =>
              (currentPlayer = "X" <=> countOf(board, "X") = countOf(board, "O")))
    /\ [][/\ StartGameStep => (board' = EmptyBoard /\ currentPlayer' = "X")
          /\ board' # board =>
                \/ board' = EmptyBoard
                \/ \E i \in Indices :
                      /\ board[i] = ""
                      /\ board' = [board EXCEPT ![i] = currentPlayer]
          /\ (AITimerFires /\ board' # board /\ state.mode = "pvai") =>
                \E i \in Indices : board' = [board EXCEPT ![i] = ai]]_vars

\* The score hardMove gives to the empty cell idx of b.
trialScore(b, idx) ==
    minimax([b EXCEPT ![idx] = ai], 0, FALSE, NegInfinity, PosInfinity, ai, human).score

\* C27: on a board with no completed line where some empty cell completes a
\* line of the AI's mark, the hard strategy returns the lowest-index cell
\* that completes an AI line; such a cell scores 10 and every other empty
\* cell scores at most 8.
C27_ImmediateWinPreferred ==
    call.op = "chooseMove" =>
        /\ call.ret = least(winningCells(call.before, ai))
        /\ \A idx \in Indices :
              call.before[idx] = "" =>
                  IF idx \in winningCells(call.before, ai)
                  THEN trialScore(call.before, idx) = 10
                  ELSE trialScore(call.before, idx) <= 8

\* The strategy has passed over a lower cell that leads to a win two moves
\* later (score 8), and has taken the first of two cells that win at once.
C27_Witness ==
    /\ call.op = "chooseMove"
    /\ Cardinality(winningCells(call.before, ai)) >= 2
    /\ call.ret = least(winningCells(call.before, ai))
    /\ \E idx \in Indices :
          /\ idx < call.ret
          /\ call.before[idx] = ""
          /\ trialScore(call.before, idx) = 8
====
